---- MODULE Spec2Model ----
(***************************************************************************)
(* A model of blender-launcher-ui (src/blender-launcher-ui/src/main.rs):   *)
(* the AppState resource (file catalog and selection), the two event       *)
(* queues (LoadBlenderData, SpawnEvent), the preview entities with the     *)
(* deferred command queue that spawns and despawns them, and the four      *)
(* systems registered in main, run once per frame in an order the          *)
(* schedule leaves open.                                                   *)
(*                                                                         *)
(* Rust strings are TLA+ strings; Rust indices stay 0-based, so entry i of *)
(* a Vec v is v[i + 1].  Option<T> is a sequence of length 0 or 1.         *)
(***************************************************************************)
EXTENDS Integers, Sequences, FiniteSets, TLC

VARIABLES
    files,                  \* app_state.files : Vec<File>
    selected_file,          \* app_state.selected_file : Option<usize>
    load_events,            \* Events<LoadBlenderData>: the two buffers
    load_reader,            \* load_blender_metadata's EventReader cursor
    spawn_events,           \* Events<SpawnEvent>: the two buffers
    spawn_reader,           \* test_spawn's EventReader cursor
    preview_objects,        \* live entities tagged BlenderPreviewObject
    commands,               \* Commands queued by test_spawn, not yet applied
    clicked,                \* the widgets whose clicked() was true in the last UI pass
    picked,                 \* what pick_files returned in the last UI pass
    phase,                  \* position in the frame: "First" or "Update"
    ran,                    \* the systems that already ran in this frame's Update
    panicked,               \* "none", or the message of the panic that aborted the process
    occupied_screen_space,  \* the OccupiedScreenSpace resource
    window,                 \* the primary window's logical size
    camera_query,           \* the entities with a Projection and a Transform
    original_camera_transform, \* the OriginalCameraTransform resource
    disk                    \* the .blend files on disk: path -> raw object names

appVars == <<files, selected_file, load_events, load_reader, spawn_events,
             spawn_reader, preview_objects, commands, clicked, picked>>
frameVars == <<phase, ran, panicked>>
cameraVars == <<occupied_screen_space, window, camera_query, original_camera_transform>>
vars == <<appVars, frameVars, cameraVars, disk>>

-----------------------------------------------------------------------------
(* Bounds of the model. *)

\* The catalog holds at most MaxFiles entries.
MaxFiles == 2
\* An entry's meshes list holds at most MaxMeshes names.
MaxMeshes == 2

-----------------------------------------------------------------------------
(* Option<T> *)

None == <<>>
Some(x) == <<x>>

-----------------------------------------------------------------------------
(* The file system and the file picker: what the program reads. *)

\* A PathBuf the picker can return: its text, and whether it is valid UTF-8.
PathBuf(text, utf8) == [text |-> text, utf8 |-> utf8]

\* The files on disk the picker offers: three .blend files and one whose
\* name is not valid UTF-8.
PathBufs ==
    { PathBuf("demo.blend", TRUE), PathBuf("b.blend", TRUE),
      PathBuf("empty.blend", TRUE), PathBuf("raw", FALSE) }

\* PathBuf::to_str: Some(text) for valid UTF-8, None otherwise.
to_str(file_path_buffer) ==
    IF file_path_buffer.utf8 THEN Some(file_path_buffer.text) ELSE None

\* The .blend files of the model: for each path the raw names (id.name) of
\* its objects, in declaration order.
DefaultDisk ==
    [path \in {"demo.blend", "b.blend", "empty.blend"} |->
        CASE path = "demo.blend" -> <<"OBCube", "Lamp">>
          [] path = "b.blend"    -> <<"OBOB">>
          [] OTHER               -> <<>>]

\* What instances_with_code(*b"OB") and get("id").get_string("name") yield
\* once the file at `path` was read.
ObjectNames(path) == IF path \in DOMAIN disk THEN disk[path] ELSE <<>>

\* Blend::from_path(path): Ok(blend) when the file can be read at the time
\* of the call (readable), Err otherwise.  A Result is modelled as an Option.
BlendFromPath(path, readable) ==
    IF readable THEN Some(ObjectNames(path)) ELSE None

-----------------------------------------------------------------------------
(* Data types *)

File(path) == [path |-> path, meshes |-> <<>>, materials |-> <<>>]

LoadBlenderData(file_id) == [file_id |-> file_id]
SpawnEvent(file_id, mesh_id) == [file_id |-> file_id, mesh_id |-> mesh_id]

\* Events<T>: buffer a holds the events of the previous update, buffer b
\* those sent since the last update.
EmptyEvents == [a |-> <<>>, b |-> <<>>]

\* EventWriter::send
Send(events, event) == [events EXCEPT !.b = Append(@, event)]

\* The events of both buffers, oldest first.
AllEvents(events) == events.a \o events.b

\* What an EventReader that has consumed `cursor` of the buffered events
\* still has to read.
Unread(events, cursor) ==
    SubSeq(AllEvents(events), cursor + 1, Len(AllEvents(events)))

\* Events::update: the older buffer is dropped, the newer becomes the older.
UpdateEvents(events) == [a |-> events.b, b |-> <<>>]

\* UpdateCursor losing the reader's position: after an update the reader
\* starts again at the oldest buffered event.
UpdateCursor_Rewinds(events, cursor) == 0

\* The reader's cursor after Events::update dropped buffer a.
UpdateCursor(events, cursor) ==
    IF cursor >= Len(events.a) THEN cursor - Len(events.a) ELSE 0

Systems == { "load_blender_metadata", "test_spawn", "ui_example_system",
             "update_camera_transform_system" }

-----------------------------------------------------------------------------
(* f32 arithmetic.  A finite value is held in thousandths, rounded toward  *)
(* zero after each operation; the values IEEE 754 adds to the finite ones  *)
(* (NaN, and the infinities with their sign) are modelled as such.  The    *)
(* sign of zero is not modelled.                                           *)

Num(v) == [k |-> "num", v |-> v]
NaN == [k |-> "nan", v |-> 0]
Inf(sign) == [k |-> "inf", v |-> sign]

\* A whole number n as an f32.
F(n) == Num(n * 1000)

Abs(n) == IF n < 0 THEN -n ELSE n
Sign(n) == IF n < 0 THEN -1 ELSE 1
\* Integer division rounding toward zero.
Quot(a, b) == Sign(a) * Sign(b) * (Abs(a) \div Abs(b))

FNeg(a) == IF a.k = "nan" THEN NaN ELSE [a EXCEPT !.v = -@]

FAdd(a, b) ==
    CASE a.k = "nan" \/ b.k = "nan" -> NaN
      [] a.k = "inf" /\ b.k = "inf" -> IF a.v = b.v THEN a ELSE NaN
      [] a.k = "inf" -> a
      [] b.k = "inf" -> b
      [] OTHER -> Num(a.v + b.v)

FSub(a, b) == FAdd(a, FNeg(b))

FMul(a, b) ==
    CASE a.k = "nan" \/ b.k = "nan" -> NaN
      [] a.k = "inf" \/ b.k = "inf" ->
            IF a.v = 0 \/ b.v = 0 THEN NaN ELSE Inf(Sign(a.v) * Sign(b.v))
      [] OTHER -> Num(Quot(a.v * b.v, 1000))

FDiv(a, b) ==
    CASE a.k = "nan" \/ b.k = "nan" -> NaN
      [] a.k = "inf" /\ b.k = "inf" -> NaN
      [] a.k = "inf" -> Inf(Sign(a.v) * Sign(b.v))
      [] b.k = "inf" -> Num(0)
      [] b.v = 0 -> IF a.v = 0 THEN NaN ELSE Inf(Sign(a.v))
      [] OTHER -> Num(Quot(a.v * 1000, b.v))

\* The largest r in lo .. hi with r * r <= n.
RECURSIVE SqrtSearch(_, _, _)
SqrtSearch(n, lo, hi) ==
    IF lo >= hi THEN lo
    ELSE LET mid == (lo + hi + 1) \div 2
         IN IF mid * mid <= n THEN SqrtSearch(n, mid, hi) ELSE SqrtSearch(n, lo, mid - 1)

\* f32::sqrt (46340 is the largest root of a 32-bit number)
FSqrt(a) ==
    CASE a.k = "nan" -> NaN
      [] a.k = "inf" -> IF a.v > 0 THEN a ELSE NaN
      [] a.v < 0 -> NaN
      [] OTHER -> Num(SqrtSearch(a.v * 1000, 0, 46340))

\* f32::tan, by the series x + x^3/3 + 2x^5/15 (the angles of the model are
\* below a quarter turn, where the series is within the resolution).
FTan(a) ==
    IF a.k # "num" THEN NaN
    ELSE LET x3 == FMul(FMul(a, a), a)
             x5 == FMul(FMul(x3, a), a)
         IN FAdd(FAdd(a, FDiv(x3, F(3))), FDiv(FMul(F(2), x5), F(15)))

\* f32 == : NaN equals nothing.
FEq(a, b) == a.k # "nan" /\ b.k # "nan" /\ a = b

-----------------------------------------------------------------------------
(* glam: Vec3 and Quat *)

Vec3(x, y, z) == [x |-> x, y |-> y, z |-> z]
Vec3Add(a, b) == Vec3(FAdd(a.x, b.x), FAdd(a.y, b.y), FAdd(a.z, b.z))
Vec3Sub(a, b) == Vec3(FSub(a.x, b.x), FSub(a.y, b.y), FSub(a.z, b.z))
Vec3Scale(a, f) == Vec3(FMul(a.x, f), FMul(a.y, f), FMul(a.z, f))
Vec3Dot(a, b) == FAdd(FAdd(FMul(a.x, b.x), FMul(a.y, b.y)), FMul(a.z, b.z))
Vec3Cross(a, b) ==
    Vec3(FSub(FMul(a.y, b.z), FMul(b.y, a.z)),
         FSub(FMul(a.z, b.x), FMul(b.z, a.x)),
         FSub(FMul(a.x, b.y), FMul(b.x, a.y)))
Vec3Length(a) == FSqrt(Vec3Dot(a, a))
Vec3Eq(a, b) == FEq(a.x, b.x) /\ FEq(a.y, b.y) /\ FEq(a.z, b.z)

Quat(x, y, z, w) == [x |-> x, y |-> y, z |-> z, w |-> w]

\* Quat::mul_vec3: rhs * (w^2 - b.b) + b * (2 rhs.b) + (b x rhs) * 2w,
\* where b is the quaternion's vector part.
mul_vec3(q, rhs) ==
    LET w == q.w
        b == Vec3(q.x, q.y, q.z)
        b2 == Vec3Dot(b, b)
    IN Vec3Add(Vec3Add(Vec3Scale(rhs, FSub(FMul(w, w), b2)),
                       Vec3Scale(b, FMul(Vec3Dot(rhs, b), F(2)))),
               Vec3Scale(Vec3Cross(b, rhs), FMul(w, F(2))))

Transform(translation, rotation) == [translation |-> translation, rotation |-> rotation]

-----------------------------------------------------------------------------
(* The frame *)

\* The start of a frame: Events::<T>::update_system of both event types
\* (CoreSet::First), and egui's new frame, in which no widget was clicked yet.
event_update_system ==
    /\ panicked = "none"
    /\ phase = "First"
    /\ load_events' = UpdateEvents(load_events)
    /\ load_reader' = UpdateCursor(load_events, load_reader)
    /\ spawn_events' = UpdateEvents(spawn_events)
    /\ spawn_reader' = UpdateCursor(spawn_events, spawn_reader)
    /\ phase' = "Update"
    /\ ran' = {}
    /\ clicked' = {}
    /\ picked' = None
    /\ UNCHANGED <<files, selected_file, preview_objects, commands, panicked, cameraVars, disk>>

-----------------------------------------------------------------------------
(* ui_example_system *)

\* The widgets of the two side panels whose clicked() the system reads.
FileButton(index) == [kind |-> "file", index |-> index, mesh_index |-> 0]
MeshButton(index, mesh_index) == [kind |-> "mesh", index |-> index, mesh_index |-> mesh_index]
SelectFileButton == [kind |-> "select_file", index |-> 0, mesh_index |-> 0]

\* The buttons the left panel lays out for the catalog fs: one per file,
\* and under each file one per name of its meshes.
FileButtons(fs) == { FileButton(i) : i \in 0 .. Len(fs) - 1 }
MeshButtons(fs) ==
    UNION { { MeshButton(i, m) : m \in 0 .. Len(fs[i + 1].meshes) - 1 } :
            i \in 0 .. Len(fs) - 1 }

\* LeftPanelStep with a one-way selection: a click on the selected file
\* leaves it selected.
LeftPanelStep_NoToggle(fs, state_selected, clicks, index, acc) ==
    LET file == fs[index + 1]
        acc1 == IF FileButton(index) \in clicks
                THEN IF state_selected = Some(index)
                     THEN [acc EXCEPT !.selected_file = Some(index)]
                     ELSE [acc EXCEPT !.selected_file = Some(index),
                                      !.load = Append(@, LoadBlenderData(index))]
                ELSE acc
        meshClicks == SelectSeq([m \in 1 .. Len(file.meshes) |-> m - 1],
                                LAMBDA mesh_index : MeshButton(index, mesh_index) \in clicks)
    IN [acc1 EXCEPT !.spawn = @ \o [k \in 1 .. Len(meshClicks) |->
                                        SpawnEvent(index, meshClicks[k])]]

\* LeftPanelStep selecting the entry after the one clicked.
LeftPanelStep_OffByOne(fs, state_selected, clicks, index, acc) ==
    LET file == fs[index + 1]
        acc1 == IF FileButton(index) \in clicks
                THEN IF state_selected = Some(index)
                     THEN [acc EXCEPT !.selected_file = None]
                     ELSE [acc EXCEPT !.selected_file = Some(index + 1),
                                      !.load = Append(@, LoadBlenderData(index))]
                ELSE acc
        meshClicks == SelectSeq([m \in 1 .. Len(file.meshes) |-> m - 1],
                                LAMBDA mesh_index : MeshButton(index, mesh_index) \in clicks)
    IN [acc1 EXCEPT !.spawn = @ \o [k \in 1 .. Len(meshClicks) |->
                                        SpawnEvent(index, meshClicks[k])]]

\* LeftPanelStep sending SpawnEvent with its two indices swapped.
LeftPanelStep_SwappedSpawn(fs, state_selected, clicks, index, acc) ==
    LET file == fs[index + 1]
        acc1 == IF FileButton(index) \in clicks
                THEN IF state_selected = Some(index)
                     THEN [acc EXCEPT !.selected_file = None]
                     ELSE [acc EXCEPT !.selected_file = Some(index),
                                      !.load = Append(@, LoadBlenderData(index))]
                ELSE acc
        meshClicks == SelectSeq([m \in 1 .. Len(file.meshes) |-> m - 1],
                                LAMBDA mesh_index : MeshButton(index, mesh_index) \in clicks)
    IN [acc1 EXCEPT !.spawn = @ \o [k \in 1 .. Len(meshClicks) |->
                                        SpawnEvent(meshClicks[k], index)]]

\* One pass over file `index` of the loop of the left panel (lines 87-117):
\* acc carries the local selected_file and the events sent so far.
LeftPanelStep(fs, state_selected, clicks, index, acc) ==
    LET selected_id == IF state_selected = None THEN 0 ELSE state_selected[1]
        file == fs[index + 1]
        is_selected == state_selected # None /\ selected_id = index
        acc1 == IF FileButton(index) \in clicks
                THEN IF is_selected
                     THEN [acc EXCEPT !.selected_file = None]
                     ELSE [acc EXCEPT !.selected_file = Some(index),
                                      !.load = Append(@, LoadBlenderData(index))]
                ELSE acc
        meshClicks == SelectSeq([m \in 1 .. Len(file.meshes) |-> m - 1],
                                LAMBDA mesh_index : MeshButton(index, mesh_index) \in clicks)
    IN [acc1 EXCEPT !.spawn = @ \o [k \in 1 .. Len(meshClicks) |->
                                        SpawnEvent(index, meshClicks[k])]]

RECURSIVE LeftPanelLoop(_, _, _, _, _)
LeftPanelLoop(fs, state_selected, clicks, index, acc) ==
    IF index >= Len(fs) THEN acc
    ELSE LeftPanelLoop(fs, state_selected, clicks, index + 1,
                       LeftPanelStep(fs, state_selected, clicks, index, acc))

\* LeftPanel writing the selection only when nothing was selected before.
LeftPanel_KeepsPrior(fs, state_selected, clicks) ==
    LET out == LeftPanelLoop(fs, state_selected, clicks, 0,
                             [selected_file |-> None, load |-> <<>>, spawn |-> <<>>])
    IN [selected_file |-> IF state_selected = None
                          THEN out.selected_file ELSE state_selected,
        load |-> out.load,
        spawn |-> out.spawn]

\* The left panel's closure (lines 75-123): the new app_state.selected_file
\* and the events sent, in order.
LeftPanel(fs, state_selected, clicks) ==
    LET original_file == state_selected
        out == LeftPanelLoop(fs, state_selected, clicks, 0,
                             [selected_file |-> None, load |-> <<>>, spawn |-> <<>>])
    IN [selected_file |-> IF out.selected_file # original_file
                          THEN out.selected_file ELSE state_selected,
        load |-> out.load,
        spawn |-> out.spawn]

\* PushPicked inserting each new entry at the front of the catalog.
RECURSIVE PushPicked_AtFront(_, _)
PushPicked_AtFront(fs, file_path_buffers) ==
    IF file_path_buffers = <<>> THEN fs
    ELSE LET file_path_option == to_str(Head(file_path_buffers))
         IN PushPicked_AtFront(IF file_path_option # None
                               THEN <<File(file_path_option[1])>> \o fs
                               ELSE fs,
                               Tail(file_path_buffers))

\* The loop over the picked path buffers (lines 144-154).
RECURSIVE PushPicked(_, _)
PushPicked(fs, file_path_buffers) ==
    IF file_path_buffers = <<>> THEN fs
    ELSE LET file_path_option == to_str(Head(file_path_buffers))
         IN PushPicked(IF file_path_option # None
                       THEN Append(fs, File(file_path_option[1]))
                       ELSE fs,
                       Tail(file_path_buffers))

\* The right panel's closure (lines 131-158): the catalog after it.
\* pick_result is the result of FileDialog::pick_files, an Option<Vec<PathBuf>>.
RightPanel(fs, clicks, pick_result) ==
    IF SelectFileButton \in clicks /\ pick_result # None
    THEN PushPicked(fs, pick_result[1])
    ELSE fs

RECURSIVE SendAll(_, _)
SendAll(events, sent) ==
    IF sent = <<>> THEN events ELSE SendAll(Send(events, Head(sent)), Tail(sent))

\* The number of names a load of file index i appends.
LoadSize(fs, i) == Len(ObjectNames(fs[i + 1].path))

\* The LoadBlenderData(i) events not yet read by load_blender_metadata.
PendingLoads(i) ==
    Len(SelectSeq(Unread(load_events, load_reader), LAMBDA e : e.file_id = i))

\* A click on a file button that sends LoadBlenderData is taken only while
\* the entry's meshes stay within MaxMeshes.
LoadFits(i) ==
    \/ selected_file = Some(i)
    \/ Len(files[i + 1].meshes) + (PendingLoads(i) + 1) * LoadSize(files, i) <= MaxMeshes

\* The sets of widgets that can report clicked() in one UI pass.  egui
\* reports at most one: there is one pointer, and a click belongs to the
\* widget the pointer was pressed on.
ClickInputs ==
    {{}}
    \cup { {b} : b \in { f \in FileButtons(files) : LoadFits(f.index) } }
    \cup { {b} : b \in MeshButtons(files) }
    \cup { {SelectFileButton} }

\* The sequences over S of length at most n.
SeqsUpTo(S, n) == UNION { [1 .. k -> S] : k \in 0 .. n }

\* No two entries of the catalog fs name the same path.
DistinctPaths(fs) == \A i, j \in 1 .. Len(fs) : fs[i].path = fs[j].path => i = j

\* What FileDialog::pick_files can return: None (the dialog was dismissed)
\* or Some(paths).  Bounds of the model: the catalog has room for the valid
\* paths, and a path already in the catalog is not picked again.
PickResults ==
    {None} \cup { Some(s) : s \in { t \in SeqsUpTo(PathBufs, MaxFiles) :
                      /\ Len(PushPicked(files, t)) <= MaxFiles
                      /\ DistinctPaths(PushPicked(files, t)) } }

\* The extents egui reports for the four panels after layout (lines 72, 128,
\* 163, 172: response.rect.width() and height()), left as the user sized them.
PanelLayouts ==
    { [left |-> F(300), top |-> F(30), right |-> F(200), bottom |-> F(40)] }

ui_example_system ==
    /\ panicked = "none"
    /\ phase = "Update"
    /\ "ui_example_system" \notin ran
    /\ \E clicks \in ClickInputs, layout \in PanelLayouts :
       \E file_path_buffers \in IF SelectFileButton \in clicks THEN PickResults ELSE {None} :
          LET left == LeftPanel(files, selected_file, clicks)
          IN /\ occupied_screen_space' = layout
             /\ selected_file' = left.selected_file
             /\ load_events' = SendAll(load_events, left.load)
             /\ spawn_events' = SendAll(spawn_events, left.spawn)
             /\ files' = RightPanel(files, clicks, file_path_buffers)
             /\ clicked' = clicks
             /\ picked' = file_path_buffers
    /\ ran' = ran \cup {"ui_example_system"}
    /\ UNCHANGED <<load_reader, spawn_reader, preview_objects, commands, phase, panicked,
                   window, camera_query, original_camera_transform, disk>>

-----------------------------------------------------------------------------
(* load_blender_metadata *)

\* str::starts_with
starts_with(s, prefix) ==
    Len(s) >= Len(prefix) /\ SubSeq(s, 1, Len(prefix)) = prefix

\* String::split_off(at): the text from byte `at` on.
split_off(s, at) == SubSeq(s, at + 1, Len(s))

\* StripName removing every leading "OB", not only the first.
RECURSIVE StripName_EveryPrefix(_)
StripName_EveryPrefix(name_raw) ==
    IF starts_with(name_raw, "OB")
    THEN StripName_EveryPrefix(split_off(name_raw, 2))
    ELSE name_raw

\* Lines 206-211: the name stored for the raw name of an object.
StripName(name_raw) ==
    LET should_remove == starts_with(name_raw, "OB")
    IN IF should_remove THEN split_off(name_raw, 2) ELSE name_raw

\* The loop over the objects of the file (lines 200-217): the meshes list
\* after every name was pushed.
RECURSIVE PushNames(_, _)
PushNames(meshes, objects) ==
    IF objects = <<>> THEN meshes
    ELSE PushNames(Append(meshes, StripName(Head(objects))), Tail(objects))

\* LoadOne replacing the entry's meshes by the names read.
LoadOne_Replaces(st, event, readable) ==
    LET file_id == event.file_id
    IN IF file_id >= Len(st.files)
       THEN [st EXCEPT !.panicked = "index out of bounds"]
       ELSE LET blend == BlendFromPath(st.files[file_id + 1].path, readable)
            IN IF blend = None
               THEN [st EXCEPT !.panicked = "error loading blend file"]
               ELSE [st EXCEPT !.files[file_id + 1].meshes = PushNames(<<>>, blend[1])]

\* LoadOne with an already-loaded guard: an entry that has names is not
\* read again.
LoadOne_LoadsOnce(st, event, readable) ==
    LET file_id == event.file_id
    IN IF file_id >= Len(st.files)
       THEN [st EXCEPT !.panicked = "index out of bounds"]
       ELSE LET blend == BlendFromPath(st.files[file_id + 1].path, readable)
            IN IF blend = None
               THEN [st EXCEPT !.panicked = "error loading blend file"]
               ELSE IF st.files[file_id + 1].meshes # <<>>
               THEN st
               ELSE [st EXCEPT !.files[file_id + 1].meshes = PushNames(@, blend[1])]

\* LoadOne recovering from a failed read: the event is skipped.
LoadOne_SkipsUnreadable(st, event, readable) ==
    LET file_id == event.file_id
    IN IF file_id >= Len(st.files)
       THEN [st EXCEPT !.panicked = "index out of bounds"]
       ELSE LET blend == BlendFromPath(st.files[file_id + 1].path, readable)
            IN IF blend = None
               THEN st
               ELSE [st EXCEPT !.files[file_id + 1].meshes = PushNames(@, blend[1])]

\* The body of the event loop for one event (lines 192-217).  st holds the
\* catalog and the panic state; readable says whether the file can be read.
LoadOne(st, event, readable) ==
    LET file_id == event.file_id
    IN IF file_id >= Len(st.files)
       THEN [st EXCEPT !.panicked = "index out of bounds"]
       ELSE LET blend == BlendFromPath(st.files[file_id + 1].path, readable)
            IN IF blend = None
               THEN [st EXCEPT !.panicked = "error loading blend file"]
               ELSE [st EXCEPT !.files[file_id + 1].meshes = PushNames(@, blend[1])]

\* The event loop (line 191): reads[k] says whether the file of the k-th
\* event can be read.  A panic ends the loop (and the process).
RECURSIVE LoadLoop(_, _, _)
LoadLoop(st, events, reads) ==
    IF events = <<>> \/ st.panicked # "none" THEN st
    ELSE LoadLoop(LoadOne(st, Head(events), Head(reads)), Tail(events), Tail(reads))

load_blender_metadata ==
    /\ panicked = "none"
    /\ phase = "Update"
    /\ "load_blender_metadata" \notin ran
    /\ LET unread == Unread(load_events, load_reader)
       IN IF unread = <<>>
          THEN UNCHANGED <<files, load_reader, panicked>>
          ELSE \E reads \in [1 .. Len(unread) -> BOOLEAN] :
               LET out == LoadLoop([files |-> files, panicked |-> "none"], unread, reads)
               IN /\ files' = out.files
                  /\ panicked' = out.panicked
                  /\ load_reader' = Len(AllEvents(load_events))
    /\ ran' = ran \cup {"load_blender_metadata"}
    /\ UNCHANGED <<selected_file, load_events, spawn_events, spawn_reader,
                   preview_objects, commands, clicked, picked, phase, cameraVars, disk>>

-----------------------------------------------------------------------------
(* test_spawn *)

\* An entity tagged BlenderPreviewObject is named by its place in
\* preview_objects, the live entities in the order they were spawned; the
\* places change only when the queued commands are applied.
Despawn(entity) == [op |-> "despawn", entity |-> entity, mesh |-> "", material |-> ""]
SpawnCmd(mesh, material) ==
    [op |-> "spawn", entity |-> 0, mesh |-> mesh, material |-> material]

PbrBundle(mesh, material) == [mesh |-> mesh, material |-> material]

\* SpawnOne naming the material after the mesh instead of "Blue".
SpawnOne_MaterialOfMesh(st, event, fs, world) ==
    LET cleared == st.commands \o [k \in 1 .. Len(world) |-> Despawn(k)]
        file_id == event.file_id
        mesh_id == event.mesh_id
    IN IF file_id >= Len(fs)
       THEN [commands |-> cleared, panicked |-> "index out of bounds"]
       ELSE IF mesh_id >= Len(fs[file_id + 1].meshes)
       THEN [commands |-> cleared, panicked |-> "index out of bounds"]
       ELSE LET file == fs[file_id + 1]
                mesh_name == file.meshes[mesh_id + 1]
            IN [commands |-> Append(cleared,
                                    SpawnCmd((file.path \o "#ME") \o mesh_name,
                                             (file.path \o "#MA") \o mesh_name)),
                panicked |-> st.panicked]

\* The body of the event loop for one event (lines 233-258).  st holds the
\* queued commands and the panic state; the query yields the entities that
\* are live when the system runs, whatever commands are queued.
SpawnOne(st, event, fs, world) ==
    LET blender_objects == [k \in 1 .. Len(world) |-> k]
        cleared == st.commands
                   \o [k \in 1 .. Len(blender_objects) |-> Despawn(blender_objects[k])]
        file_id == event.file_id
        mesh_id == event.mesh_id
    IN IF file_id >= Len(fs)
       THEN [commands |-> cleared, panicked |-> "index out of bounds"]
       ELSE IF mesh_id >= Len(fs[file_id + 1].meshes)
       THEN [commands |-> cleared, panicked |-> "index out of bounds"]
       ELSE LET file == fs[file_id + 1]
                mesh_name == file.meshes[mesh_id + 1]
                file_name == (file.path \o "#ME") \o mesh_name
                material_name == file.path \o "#MABlue"
            IN [commands |-> Append(cleared, SpawnCmd(file_name, material_name)),
                panicked |-> st.panicked]

RECURSIVE SpawnLoop(_, _, _, _)
SpawnLoop(st, events, fs, world) ==
    IF events = <<>> \/ st.panicked # "none" THEN st
    ELSE SpawnLoop(SpawnOne(st, Head(events), fs, world), Tail(events), fs, world)

test_spawn ==
    /\ panicked = "none"
    /\ phase = "Update"
    /\ "test_spawn" \notin ran
    /\ LET unread == Unread(spawn_events, spawn_reader)
       IN IF unread = <<>>
          THEN UNCHANGED <<commands, spawn_reader, panicked>>
          ELSE LET out == SpawnLoop([commands |-> commands, panicked |-> "none"],
                                    unread, files, preview_objects)
               IN /\ commands' = out.commands
                  /\ panicked' = out.panicked
                  /\ spawn_reader' = Len(AllEvents(spawn_events))
    /\ ran' = ran \cup {"test_spawn"}
    /\ UNCHANGED <<files, selected_file, load_events, load_reader, spawn_events,
                   preview_objects, clicked, picked, phase, cameraVars, disk>>

\* Applying the queued commands in order: a despawn removes the entity (and
\* only warns when it is already gone), a spawn adds a new one.
ApplyCommands(world, cmds) ==
    LET despawned == { cmds[k].entity : k \in { j \in 1 .. Len(cmds) : cmds[j].op = "despawn" } }
        kept == SelectSeq([k \in 1 .. Len(world) |-> k], LAMBDA k : k \notin despawned)
        spawned == SelectSeq(cmds, LAMBDA c : c.op = "spawn")
    IN [k \in 1 .. Len(kept) |-> world[kept[k]]]
       \o [k \in 1 .. Len(spawned) |-> PbrBundle(spawned[k].mesh, spawned[k].material)]

\* apply_system_buffers at the end of the Update set: the frame's commands
\* take effect once all four systems ran.
apply_system_buffers ==
    /\ panicked = "none"
    /\ phase = "Update"
    /\ ran = Systems
    /\ preview_objects' = ApplyCommands(preview_objects, commands)
    /\ commands' = <<>>
    /\ phase' = "First"
    /\ UNCHANGED <<files, selected_file, load_events, load_reader, spawn_events,
                   spawn_reader, clicked, picked, ran, panicked, cameraVars, disk>>

-----------------------------------------------------------------------------
(* setup_system and update_camera_transform_system *)

\* const CAMERA_TARGET: Vec3 = Vec3::ZERO
CAMERA_TARGET == Vec3(F(0), F(0), F(0))

\* OccupiedScreenSpace::default()
DefaultOccupiedScreenSpace == [left |-> F(0), top |-> F(0), right |-> F(0), bottom |-> F(0)]

\* The transform setup_system builds: Vec3::new(-2.0, 2.5, 5.0), and the
\* rotation looking_at(CAMERA_TARGET, Vec3::Y) gives from there (the unit
\* quaternion (-0.212, -0.185, -0.041, 0.959)).
SetupCameraTransform ==
    Transform(Vec3(Num(-2000), Num(2500), Num(5000)),
              Quat(Num(-212), Num(-185), Num(-41), Num(959)))

\* Projection::Perspective(PerspectiveProjection { fov, aspect_ratio, .. })
PerspectiveProjection(fov, aspect_ratio) ==
    [kind |-> "Perspective", fov |-> fov, aspect_ratio |-> aspect_ratio]
\* Projection::Orthographic(..)
OrthographicProjection == [kind |-> "Orthographic", fov |-> F(0), aspect_ratio |-> F(0)]

\* An entity the query Query<(&Projection, &mut Transform)> yields.
Camera(projection, transform) == [projection |-> projection, transform |-> transform]

\* The window setup leaves: 1280 x 720 logical pixels.
DefaultWindow == [width |-> F(1280), height |-> F(720)]

\* Camera3dBundle { transform, ..default() }: a perspective projection with
\* a field of view of pi/4, its aspect ratio that of the window.
SetupCamera ==
    Camera(PerspectiveProjection(Num(785), FDiv(DefaultWindow.width, DefaultWindow.height)),
           SetupCameraTransform)

\* Lines 302-317: the translation the system writes.
NewTranslation(occupied, original, win, camera_projection, rotation) ==
    LET distance_to_target == Vec3Length(Vec3Sub(CAMERA_TARGET, original.translation))
        frustum_height == FMul(FMul(F(2), distance_to_target),
                               FTan(FMul(camera_projection.fov, Num(500))))
        frustum_width == FMul(frustum_height, camera_projection.aspect_ratio)
        left_taken == FDiv(occupied.left, win.width)
        right_taken == FDiv(occupied.right, win.width)
        top_taken == FDiv(occupied.top, win.height)
        bottom_taken == FDiv(occupied.bottom, win.height)
    IN Vec3Add(original.translation,
               mul_vec3(rotation,
                        Vec3(FMul(FMul(FSub(right_taken, left_taken), frustum_width), Num(500)),
                             FMul(FMul(FSub(top_taken, bottom_taken), frustum_height), Num(500)),
                             F(0))))

\* update_camera_transform_system computing the translation from the
\* camera's current transform instead of the original one.
update_camera_transform_system_FromCurrent ==
    /\ panicked = "none"
    /\ IF Len(camera_query) = 1 /\ camera_query[1].projection.kind = "Perspective"
       THEN /\ camera_query' =
                 [camera_query EXCEPT ![1].transform.translation =
                     NewTranslation(occupied_screen_space, camera_query[1].transform,
                                    window, camera_query[1].projection,
                                    camera_query[1].transform.rotation)]
            /\ panicked' = panicked
       ELSE /\ panicked' = "unreachable"
            /\ camera_query' = camera_query
    /\ UNCHANGED <<appVars, occupied_screen_space, window, original_camera_transform, disk>>

\* update_camera_transform_system taking the first entity of the query
\* when the query yields more than one.
update_camera_transform_system_FirstOfMany ==
    /\ panicked = "none"
    /\ IF Len(camera_query) >= 1 /\ camera_query[1].projection.kind = "Perspective"
       THEN /\ camera_query' =
                 [camera_query EXCEPT ![1].transform.translation =
                     NewTranslation(occupied_screen_space, original_camera_transform,
                                    window, camera_query[1].projection,
                                    camera_query[1].transform.rotation)]
            /\ panicked' = panicked
       ELSE /\ panicked' = "unreachable"
            /\ camera_query' = camera_query
    /\ UNCHANGED <<appVars, occupied_screen_space, window, original_camera_transform, disk>>

\* The body of update_camera_transform_system (lines 297-317).
update_camera_transform_system ==
    /\ panicked = "none"
    /\ IF Len(camera_query) = 1 /\ camera_query[1].projection.kind = "Perspective"
       THEN /\ camera_query' =
                 [camera_query EXCEPT ![1].transform.translation =
                     NewTranslation(occupied_screen_space, original_camera_transform,
                                    window, camera_query[1].projection,
                                    camera_query[1].transform.rotation)]
            /\ panicked' = panicked
       ELSE /\ panicked' = "unreachable"
            /\ camera_query' = camera_query
    /\ UNCHANGED <<appVars, occupied_screen_space, window, original_camera_transform, disk>>

\* A system of the Update set runs once per frame, at any point of the set.
RunInUpdate(system) ==
    /\ phase = "Update"
    /\ system \notin ran
    /\ ran' = ran \cup {system}
    /\ phase' = phase

-----------------------------------------------------------------------------
(* Initial state: App::new() ... insert_resource(AppState{None, []}),      *)
(* add_event x 2, init_resource::<OccupiedScreenSpace>(), and what         *)
(* setup_system leaves: one perspective camera at the original transform,  *)
(* and nothing tagged BlenderPreviewObject.                                *)

Init ==
    /\ files = <<>>
    /\ selected_file = None
    /\ load_events = EmptyEvents
    /\ load_reader = 0
    /\ spawn_events = EmptyEvents
    /\ spawn_reader = 0
    /\ preview_objects = <<>>
    /\ commands = <<>>
    /\ clicked = {}
    /\ picked = None
    /\ phase = "First"
    /\ ran = {}
    /\ panicked = "none"
    /\ occupied_screen_space = DefaultOccupiedScreenSpace
    /\ window = DefaultWindow
    /\ camera_query = <<SetupCamera>>
    /\ original_camera_transform = SetupCameraTransform
    /\ disk = DefaultDisk

Next ==
    \/ event_update_system
    \/ load_blender_metadata
    \/ test_spawn
    \/ ui_example_system
    \/ (RunInUpdate("update_camera_transform_system") /\ update_camera_transform_system)
    \/ apply_system_buffers


Spec == Init /\ [][Next]_vars

\* The step in which update_camera_transform_system runs, seen from the
\* schedule alone: it is enabled exactly when the system's step in Next is.
CameraRuns == RunInUpdate("update_camera_transform_system") /\ panicked = "none"

\* App::run keeps running frames, and a frame runs event_update_system, each
\* of the four systems and apply_system_buffers, until a system panics.
SpecFair ==
    /\ Spec
    /\ WF_vars(event_update_system)
    /\ WF_vars(load_blender_metadata)
    /\ WF_vars(test_spawn)
    /\ WF_vars(ui_example_system)
    /\ WF_ran(CameraRuns)
    /\ WF_vars(apply_system_buffers)

-----------------------------------------------------------------------------
(* update_camera_transform_system as a function of what it reads: the      *)
(* panel occupancy, the window size and the original pose are drawn from   *)
(* bounded sets, and the system runs on them.                              *)

\* The extents a panel can take, in pixels (0: nothing occupied).
PanelExtents == { F(0), F(200), F(300) }

\* The logical sizes the window can have; a minimized window has size 0 x 0.
WindowSizes ==
    { [width |-> F(0), height |-> F(0)],
      [width |-> F(800), height |-> F(600)],
      [width |-> F(1280), height |-> F(720)] }

\* Original camera poses: the one setup_system builds, and a camera on the
\* z axis looking down -z (the identity rotation).
OriginalPoses ==
    { SetupCameraTransform,
      Transform(Vec3(F(0), F(0), F(5)), Quat(F(0), F(0), F(0), F(1))) }

InitCamera ==
    /\ files = <<>>
    /\ selected_file = None
    /\ load_events = EmptyEvents
    /\ load_reader = 0
    /\ spawn_events = EmptyEvents
    /\ spawn_reader = 0
    /\ preview_objects = <<>>
    /\ commands = <<>>
    /\ clicked = {}
    /\ picked = None
    /\ phase = "Update"
    /\ ran = {}
    /\ panicked = "none"
    /\ occupied_screen_space \in [left : PanelExtents, top : PanelExtents,
                                  right : PanelExtents, bottom : PanelExtents]
    /\ window \in WindowSizes
    /\ original_camera_transform \in OriginalPoses
    /\ disk = DefaultDisk
    /\ camera_query =
          <<Camera(PerspectiveProjection(Num(785), FDiv(window.width, window.height)),
                   original_camera_transform)>>

NextCamera == update_camera_transform_system /\ UNCHANGED <<phase, ran>>

SpecCamera == InitCamera /\ [][NextCamera]_vars

-----------------------------------------------------------------------------
(* update_camera_transform_system as a function of the world its query     *)
(* runs on.  setup_system spawns one perspective camera and nothing in     *)
(* main.rs adds or removes one, so the worlds with another number or kind  *)
(* of camera are inputs of the system here, not states of the App above.   *)

\* The results of Query<(&Projection, &mut Transform)> for a world with no
\* camera, one camera or two, each perspective or orthographic.
CameraWorlds ==
    LET perspective == SetupCamera
        orthographic == Camera(OrthographicProjection, SetupCameraTransform)
    IN { <<>>, <<perspective>>, <<orthographic>>,
         <<perspective, perspective>>, <<perspective, orthographic>>,
         <<orthographic, perspective>> }

InitWorlds ==
    /\ files = <<>>
    /\ selected_file = None
    /\ load_events = EmptyEvents
    /\ load_reader = 0
    /\ spawn_events = EmptyEvents
    /\ spawn_reader = 0
    /\ preview_objects = <<>>
    /\ commands = <<>>
    /\ clicked = {}
    /\ picked = None
    /\ phase = "Update"
    /\ ran = {}
    /\ panicked = "none"
    /\ occupied_screen_space \in [left : PanelExtents, top : PanelExtents,
                                  right : PanelExtents, bottom : PanelExtents]
    /\ window = DefaultWindow
    /\ original_camera_transform = SetupCameraTransform
    /\ disk = DefaultDisk
    /\ camera_query \in CameraWorlds

NextWorlds == update_camera_transform_system /\ UNCHANGED <<phase, ran>>

SpecWorlds == InitWorlds /\ [][NextWorlds]_vars

-----------------------------------------------------------------------------
(* load_blender_metadata as a function of the file it reads: demo.blend    *)
(* was picked and its button clicked, the file holds one object whose raw  *)
(* name is drawn from a bounded set, and the loader runs on the event.     *)

\* Raw names are at most MaxNameLen characters long.
MaxNameLen == 4

\* The strings of exactly n characters over the letters O, B and C.
RECURSIVE NamesOfLen(_)
NamesOfLen(n) ==
    IF n = 0 THEN {""}
    ELSE { s \o c : s \in NamesOfLen(n - 1), c \in {"O", "B", "C"} }

RawNames == UNION { NamesOfLen(n) : n \in 0 .. MaxNameLen }

InitNames ==
    /\ files = <<File("demo.blend")>>
    /\ selected_file = Some(0)
    /\ load_events = [a |-> <<>>, b |-> <<LoadBlenderData(0)>>]
    /\ load_reader = 0
    /\ spawn_events = EmptyEvents
    /\ spawn_reader = 0
    /\ preview_objects = <<>>
    /\ commands = <<>>
    /\ clicked = {FileButton(0)}
    /\ picked = None
    /\ phase = "Update"
    /\ ran = {"ui_example_system"}
    /\ panicked = "none"
    /\ occupied_screen_space \in PanelLayouts
    /\ window = DefaultWindow
    /\ camera_query = <<SetupCamera>>
    /\ original_camera_transform = SetupCameraTransform
    /\ disk \in [{"demo.blend"} -> { <<name_raw>> : name_raw \in RawNames }]

NextNames == load_blender_metadata

SpecNames == InitNames /\ [][NextNames]_vars

-----------------------------------------------------------------------------
(* Properties *)

\* The step in which a system of the Update set runs.
Runs(system) == system \notin ran /\ system \in ran'

\* Once the UI pass of a frame is over, no later step of the frame writes
\* app_state.selected_file: what the pass leaves is what the frame ends with.
SelectionKeptToFrameEnd ==
    ("ui_example_system" \in ran /\ phase = "Update") => selected_file' = selected_file

\* C1: whatever the spawn events processed and however they fall over the
\* frames, at most one entity tagged BlenderPreviewObject is live.
C1_AtMostOnePreviewObject == Len(preview_objects) <= 1

\* C2: a click on the button of file i in a frame where file i is selected
\* leaves nothing selected at the end of the frame and sends no
\* LoadBlenderData event.
C2_ToggleClearsSelection ==
    [][ /\ \A i \in 0 .. Len(files) - 1 :
             (Runs("ui_example_system") /\ clicked' = {FileButton(i)}
                 /\ selected_file = Some(i))
             => (selected_file' = None /\ load_events' = load_events)
        /\ SelectionKeptToFrameEnd ]_vars

\* C2 witness: the UI pass saw file 0's button clicked, nothing is selected
\* and no load event was sent in this frame: file 0 was selected before.
C2_Witness ==
    /\ clicked = {FileButton(0)}
    /\ "ui_example_system" \in ran
    /\ selected_file = None
    /\ load_events.b = <<>>

\* C3: a click on the button of file i in a frame where file i is not
\* selected leaves file i selected at the end of the frame, whatever was
\* selected before, and sends exactly one event, LoadBlenderData(i).
C3_ClickSelectsAndLoads ==
    [][ /\ \A i \in 0 .. Len(files) - 1 :
             (Runs("ui_example_system") /\ clicked' = {FileButton(i)}
                 /\ selected_file # Some(i))
             => /\ selected_file' = Some(i)
                /\ load_events' = [load_events EXCEPT !.b = Append(@, LoadBlenderData(i))]
        /\ SelectionKeptToFrameEnd ]_vars

\* C3 witness: file 0 was selected in the frame before (its load event is
\* in the older buffer), file 1's button was clicked in this frame, file 1
\* is selected and the frame's one load event is LoadBlenderData(1).
C3_Witness ==
    /\ clicked = {FileButton(1)}
    /\ selected_file = Some(1)
    /\ load_events = [a |-> <<LoadBlenderData(0)>>, b |-> <<LoadBlenderData(1)>>]

\* C4: a set selection is always a valid index of the catalog.
C4_SelectionInRange ==
    selected_file = None \/ selected_file[1] \in 0 .. Len(files) - 1

\* C4 witness: the last entry of a catalog of two is selected.
C4_Witness == Len(files) = 2 /\ selected_file = Some(1)

\* s is a prefix of t.
IsPrefix(s, t) == Len(s) <= Len(t) /\ SubSeq(t, 1, Len(s)) = s

\* C5: the catalog is append-only: every step keeps the entries it had, in
\* their order and with their paths, and each entry's meshes only grows at
\* its end.
C5_CatalogAppendOnly ==
    [][ /\ Len(files) <= Len(files')
        /\ \A i \in 1 .. Len(files) :
              /\ files'[i].path = files[i].path
              /\ IsPrefix(files[i].meshes, files'[i].meshes) ]_vars

\* C5 witness: a second entry was appended to the catalog and both entries
\* had names appended.
C5_Witness ==
    /\ Len(files) = 2
    /\ files[1].meshes # <<>>
    /\ files[2].meshes # <<>>

\* The names a successful load of the file at `path` appends: those of the
\* file, in its order, each without its "OB" prefix.
LoadedNames(path) == [k \in 1 .. Len(ObjectNames(path)) |-> StripName(ObjectNames(path)[k])]

\* C6: a run of load_blender_metadata that processes one event,
\* LoadBlenderData(i), and reads the file appends the file's object names,
\* in the file's order, to files[i].meshes and changes nothing else of the
\* catalog nor the selection.
C6_LoadChangesOneEntry ==
    [][ (/\ Runs("load_blender_metadata")
         /\ Len(Unread(load_events, load_reader)) = 1
         /\ panicked' = "none")
        => LET i == Unread(load_events, load_reader)[1].file_id
           IN /\ Len(files') = Len(files)
              /\ \A j \in 1 .. Len(files) :
                    /\ files'[j].path = files[j].path
                    /\ files'[j].materials = files[j].materials
                    /\ j # i + 1 => files'[j].meshes = files[j].meshes
              /\ files'[i + 1].meshes = files[i + 1].meshes \o LoadedNames(files[i + 1].path)
              /\ selected_file' = selected_file ]_vars

\* C6 witness: of two entries the second was loaded, twice, and the first
\* not at all.
C6_Witness ==
    /\ Len(files) = 2
    /\ files[1] = File("demo.blend")
    /\ files[2].meshes = <<"OB", "OB">>
    /\ "load_blender_metadata" \in ran

\* C7: the name stored for a raw name is the raw name without its first two
\* characters when it starts with "OB", and the raw name otherwise: one
\* prefix is stripped, never more.
C7_StripsOnePrefix ==
    \A i \in 1 .. Len(files) : \A k \in 1 .. Len(files[i].meshes) :
        LET name_raw == disk[files[i].path][k]
            name == files[i].meshes[k]
        IN IF Len(name_raw) >= 2 /\ SubSeq(name_raw, 1, 2) = "OB"
           THEN name_raw = "OB" \o name
           ELSE name = name_raw

\* C7 witness: the raw name "OBOB" was read and stored as "OB".
C7_Witness ==
    /\ disk["demo.blend"] = <<"OBOB">>
    /\ files[1].meshes = <<"OB">>

\* C8: no handler indexes out of bounds: every event of either queue
\* carries indices that are in range, and no system panicked on an index.
C8_EventIndicesInRange ==
    /\ panicked # "index out of bounds"
    /\ \A k \in 1 .. Len(AllEvents(load_events)) :
          AllEvents(load_events)[k].file_id \in 0 .. Len(files) - 1
    /\ \A k \in 1 .. Len(AllEvents(spawn_events)) :
          LET e == AllEvents(spawn_events)[k]
          IN /\ e.file_id \in 0 .. Len(files) - 1
             /\ e.mesh_id \in 0 .. Len(files[e.file_id + 1].meshes) - 1

\* C8 witness: test_spawn processed the event for the last mesh of the last
\* file, sent while load_blender_metadata had an event of its own to read.
C8_Witness ==
    /\ Len(files) = 2
    /\ Len(files[2].meshes) = 2
    /\ AllEvents(spawn_events) = <<SpawnEvent(1, 1)>>
    /\ spawn_reader = 1
    /\ "test_spawn" \in ran
    /\ AllEvents(load_events) # <<>>

\* The bundle the claim expects for SpawnEvent(f, m) on the catalog fs.
ExpectedBundle(fs, event) ==
    LET file == fs[event.file_id + 1]
    IN PbrBundle((file.path \o "#ME") \o file.meshes[event.mesh_id + 1],
                 file.path \o "#MABlue")

\* C9: every SpawnEvent(f, m) processed queues the spawn of an object whose
\* mesh is files[f].path + "#ME" + files[f].meshes[m] and whose material is
\* files[f].path + "#MABlue", and applying the commands makes these objects
\* the newest live ones.  In the scenario: picking demo.blend into the empty
\* catalog gives one entry with no meshes, selecting it fills the meshes
\* with the file's names, and after one mesh button was clicked exactly one
\* preview object is live, built from demo.blend.
C9_SpawnReferencesAssets ==
    [][ /\ (Runs("test_spawn") /\ panicked' = "none")
           => LET unread == Unread(spawn_events, spawn_reader)
                  spawned == SelectSeq(commands', LAMBDA c : c.op = "spawn")
              IN /\ Len(spawned) = Len(unread)
                 /\ \A k \in 1 .. Len(unread) :
                       PbrBundle(spawned[k].mesh, spawned[k].material)
                          = ExpectedBundle(files, unread[k])
        /\ (phase = "Update" /\ phase' = "First")
           => LET spawned == SelectSeq(commands, LAMBDA c : c.op = "spawn")
                  n == Len(preview_objects')
              IN /\ n >= Len(spawned)
                 /\ \A k \in 1 .. Len(spawned) :
                       preview_objects'[n - Len(spawned) + k]
                          = PbrBundle(spawned[k].mesh, spawned[k].material)
        /\ (/\ files = <<>>
            /\ Runs("ui_example_system")
            /\ clicked' = {SelectFileButton}
            /\ picked' = Some(<<PathBuf("demo.blend", TRUE)>>))
           => files' = <<[path |-> "demo.blend", meshes |-> <<>>, materials |-> <<>>]>>
        /\ (/\ files = <<File("demo.blend")>>
            /\ Runs("load_blender_metadata")
            /\ Unread(load_events, load_reader) = <<LoadBlenderData(0)>>
            /\ panicked' = "none")
           => files'[1].meshes = <<"Cube", "Lamp">>
        /\ (/\ Len(files) = 1
            /\ files[1].path = "demo.blend"
            /\ preview_objects = <<>>
            /\ Len(commands) = 1
            /\ phase = "Update" /\ phase' = "First")
           => \E m \in 1 .. Len(files[1].meshes) :
                 preview_objects' = <<PbrBundle("demo.blend#ME" \o files[1].meshes[m],
                                                "demo.blend#MABlue")>> ]_vars

\* C9 witness: the end of the scenario: the catalog holds demo.blend with
\* its two names, and the one live preview object is its mesh Lamp.
C9_Witness ==
    /\ files = <<[path |-> "demo.blend", meshes |-> <<"Cube", "Lamp">>, materials |-> <<>>]>>
    /\ preview_objects = <<PbrBundle("demo.blend#MELamp", "demo.blend#MABlue")>>

\* Nothing is occupied by a panel.
NothingOccupied ==
    /\ occupied_screen_space.left = F(0)
    /\ occupied_screen_space.right = F(0)
    /\ occupied_screen_space.top = F(0)
    /\ occupied_screen_space.bottom = F(0)

\* C10: for every window size and every original pose, with nothing
\* occupied the camera's translation equals the original translation.
C10_NoDisplacementWhenUnoccupied ==
    NothingOccupied
    => Vec3Eq(camera_query[1].transform.translation, original_camera_transform.translation)

\* What holds of the code in place of C10: the same, for a window whose
\* width and height are not 0.
C10_NoDisplacementInOpenWindow ==
    (NothingOccupied /\ window.width # F(0) /\ window.height # F(0))
    => Vec3Eq(camera_query[1].transform.translation, original_camera_transform.translation)

\* C11: with the occupancy, the window and the original pose held fixed, a
\* run of update_camera_transform_system on a camera an earlier run has
\* displaced leaves the camera's transform as it is (a NaN component stays
\* the NaN it was), and after every run the camera's rotation is the
\* original rotation.
C11_CompensationIdempotent ==
    [][ /\ camera_query'[1].transform.rotation = original_camera_transform.rotation
        /\ (camera_query[1].transform.translation # original_camera_transform.translation
            => camera_query' = camera_query) ]_vars

\* A run displaced the camera by a finite offset: the left panel takes 300
\* pixels of a 1280 x 720 window and the right panel none.
C11_Witness ==
    /\ occupied_screen_space.left = F(300)
    /\ occupied_screen_space.right = F(0)
    /\ window = DefaultWindow
    /\ panicked = "none"
    /\ camera_query[1].transform.translation.x.k = "num"
    /\ camera_query[1].transform.translation # original_camera_transform.translation

\* The query yields exactly one entity and its projection is perspective.
ExactlyOnePerspective ==
    Len(camera_query) = 1 /\ camera_query[1].projection.kind = "Perspective"

\* C12: a run of update_camera_transform_system on a world whose query does
\* not yield exactly one perspective camera panics and writes no transform;
\* on a world with exactly one perspective camera it does not panic; and
\* nothing runs once the process has panicked.
C12_FatalUnlessOnePerspective ==
    [][ /\ panicked = "none"
        /\ IF ExactlyOnePerspective
           THEN panicked' = "none"
           ELSE panicked' = "unreachable" /\ camera_query' = camera_query ]_vars

\* The system ran on a world with two perspective cameras and panicked.
C12_Witness ==
    /\ Len(camera_query) = 2
    /\ camera_query[1].projection.kind = "Perspective"
    /\ camera_query[2].projection.kind = "Perspective"
    /\ panicked = "unreachable"

\* C13: a run of ui_example_system in which no file button reports a click
\* leaves app_state.selected_file as it was.
C13_SelectionKeptWithoutClick ==
    [][ (Runs("ui_example_system") /\ clicked' \cap FileButtons(files) = {})
        => selected_file' = selected_file ]_vars

\* What the code does in place of C13: a run of ui_example_system in which
\* no file button reports a click leaves nothing selected.
C13_SelectionClearedWithoutClick ==
    [][ (Runs("ui_example_system") /\ clicked' \cap FileButtons(files) = {})
        => selected_file' = None ]_vars

\* The events a run of ui_example_system sent to spawn_events.
SentSpawns == SubSeq(spawn_events'.b, Len(spawn_events.b) + 1, Len(spawn_events'.b))

\* C14: when ui_example_system sends SpawnEvent(f, m), file f is the selected
\* file at the time of the send, and when test_spawn processes
\* SpawnEvent(f, m), file f is the selected file.
C14_SpawnFromSelectedFile ==
    [][ /\ Runs("ui_example_system")
           => \A k \in 1 .. Len(SentSpawns) : selected_file = Some(SentSpawns[k].file_id)
        /\ Runs("test_spawn")
           => \A k \in 1 .. Len(Unread(spawn_events, spawn_reader)) :
                 selected_file = Some(Unread(spawn_events, spawn_reader)[k].file_id) ]_vars

\* The sequence `names` repeated k times.
RECURSIVE Repeat(_, _)
Repeat(names, k) == IF k = 0 THEN <<>> ELSE names \o Repeat(names, k - 1)

\* The number of LoadBlenderData(i) events among `events`.
LoadsOf(events, i) == Len(SelectSeq(events, LAMBDA e : e.file_id = i))

\* C15: each LoadBlenderData(i) processed appends the whole object-name list
\* of file i to files[i].meshes once more, whatever the entry already holds,
\* and nothing else changes an entry's meshes: after k events for file i
\* have been processed, files[i].meshes is the file's name list k times over.
C15_RepeatedLoadsRepeatNames ==
    [][ \A i \in 0 .. Len(files) - 1 :
          /\ (Runs("load_blender_metadata") /\ panicked' = "none")
             => files'[i + 1].meshes =
                   files[i + 1].meshes
                   \o Repeat(LoadedNames(files[i + 1].path),
                             LoadsOf(Unread(load_events, load_reader), i))
          /\ ~Runs("load_blender_metadata")
             => files'[i + 1].meshes = files[i + 1].meshes
          /\ \E k \in 0 .. Len(files'[i + 1].meshes) :
                files'[i + 1].meshes = Repeat(LoadedNames(files'[i + 1].path), k) ]_vars

\* C15 witness: b.blend, whose one object is named "OBOB", was selected
\* twice and the loader ran each time: its entry lists "OB" twice.
C15_Witness ==
    \E i \in 1 .. Len(files) :
       /\ files[i].path = "b.blend"
       /\ files[i].meshes = Repeat(<<"OB">>, 2)
       /\ clicked = {FileButton(i - 1)}
       /\ "load_blender_metadata" \in ran
       /\ Unread(load_events, load_reader) = <<>>

\* The events sent and not yet handled, oldest first.
PendingLoad == Unread(load_events, load_reader)
PendingSpawn == Unread(spawn_events, spawn_reader)

\* One step of the program seen from the two queues: the UI pass appends
\* what it sends and takes nothing away; a handler's run handles every
\* pending event of its queue, once and in the order sent (one spawn
\* command per SpawnEvent, one more copy of the file's names per
\* LoadBlenderData), and leaves nothing pending; no other step, the buffer
\* swap of event_update_system included, adds, drops or re-exposes an event.
HandledOnceInOrder ==
    /\ IF Runs("load_blender_metadata")
       THEN panicked' = "none"
            => /\ PendingLoad' = <<>>
               /\ \A i \in 0 .. Len(files) - 1 :
                     files'[i + 1].meshes =
                        files[i + 1].meshes
                        \o Repeat(LoadedNames(files[i + 1].path), LoadsOf(PendingLoad, i))
       ELSE IF Runs("ui_example_system")
       THEN IsPrefix(PendingLoad, PendingLoad')
       ELSE PendingLoad' = PendingLoad
    /\ IF Runs("test_spawn")
       THEN panicked' = "none"
            => /\ PendingSpawn' = <<>>
               /\ LET spawned == SelectSeq(commands', LAMBDA c : c.op = "spawn")
                  IN /\ SelectSeq(commands, LAMBDA c : c.op = "spawn") = <<>>
                     /\ Len(spawned) = Len(PendingSpawn)
                     /\ \A k \in 1 .. Len(PendingSpawn) :
                           PbrBundle(spawned[k].mesh, spawned[k].material)
                              = ExpectedBundle(files, PendingSpawn[k])
       ELSE IF Runs("ui_example_system")
       THEN IsPrefix(PendingSpawn, PendingSpawn')
       ELSE PendingSpawn' = PendingSpawn

\* C16: every event the UI sends is handled exactly once and in the order
\* sent, whether its handler runs before or after ui_example_system in the
\* frame, and as long as the process has not panicked a pending event is
\* eventually handled.
C16_EventsHandledOnce ==
    /\ [][HandledOnceInOrder]_vars
    /\ (PendingLoad # <<>>) ~> (PendingLoad = <<>> \/ panicked # "none")
    /\ (PendingSpawn # <<>>) ~> (PendingSpawn = <<>> \/ panicked # "none")

\* C16 witness: test_spawn ran before the UI pass in the frame before and
\* after it in this one, and handled in one run the two events sent by the
\* two passes, Cube then Lamp, in that order.
C16_Witness ==
    /\ spawn_events = [a |-> <<SpawnEvent(0, 0)>>, b |-> <<SpawnEvent(0, 1)>>]
    /\ spawn_reader = 2
    /\ "test_spawn" \in ran
    /\ Len(commands) >= 2
    /\ commands[Len(commands) - 1].mesh = "demo.blend#MECube"
    /\ commands[Len(commands)].mesh = "demo.blend#MELamp"

\* C17: in every frame, under every schedule of the four systems, the
\* catalog, the selection and the panel occupancy are written by one system
\* only, ui_example_system, and the systems that read them run after it:
\* load_blender_metadata and test_spawn after the UI pass, and
\* update_camera_transform_system after these two.
C17_OneWriterReadersAfter ==
    [][ /\ files' # files => Runs("ui_example_system")
        /\ selected_file' # selected_file => Runs("ui_example_system")
        /\ occupied_screen_space' # occupied_screen_space => Runs("ui_example_system")
        /\ Runs("load_blender_metadata") => "ui_example_system" \in ran
        /\ Runs("test_spawn") => "ui_example_system" \in ran
        /\ Runs("update_camera_transform_system")
           => {"ui_example_system", "load_blender_metadata", "test_spawn"} \subseteq ran ]_vars

\* The part of C17 the code keeps: the selection and the panel occupancy
\* are written by ui_example_system only.
C17_SelectionAndOccupancyOneWriter ==
    [][ /\ selected_file' # selected_file => Runs("ui_example_system")
        /\ occupied_screen_space' # occupied_screen_space => Runs("ui_example_system") ]_vars

\* The part of C17 about the catalog's writer: only ui_example_system
\* changes app_state.files.
C17_CatalogOneWriter == [][ files' # files => Runs("ui_example_system") ]_vars

\* The part of C17 about the order: the three systems that read what
\* ui_example_system writes run after it in the frame.
C17_ReadersAfterWriter ==
    [][ /\ Runs("load_blender_metadata") => "ui_example_system" \in ran
        /\ Runs("test_spawn") => "ui_example_system" \in ran
        /\ Runs("update_camera_transform_system") => "ui_example_system" \in ran ]_vars

\* The UI pass saw "Select file" clicked and the picker returned nothing:
\* the dialog was dismissed, or no path was chosen.
PickedNothing ==
    /\ Runs("ui_example_system")
    /\ clicked' = {SelectFileButton}
    /\ picked' \in {None, Some(<<>>)}

\* C18: a "Select file" click whose picker returns nothing leaves the
\* catalog and the selection unchanged; a run of load_blender_metadata with
\* no LoadBlenderData pending leaves every entry's meshes unchanged; and a
\* run of test_spawn with no SpawnEvent pending queues no despawn and no
\* spawn, so that the frame's end changes no preview object.
C18_NoOpsChangeNothing ==
    [][ /\ PickedNothing => (files' = files /\ selected_file' = selected_file)
        /\ (Runs("load_blender_metadata") /\ PendingLoad = <<>>) => files' = files
        /\ (Runs("test_spawn") /\ PendingSpawn = <<>>) => commands' = <<>>
        /\ (phase = "Update" /\ phase' = "First" /\ commands = <<>>)
           => preview_objects' = preview_objects ]_vars

\* The part of C18 the code keeps: everything but the selection.
C18_NoOpsKeepCatalogAndObjects ==
    [][ /\ PickedNothing => files' = files
        /\ (Runs("load_blender_metadata") /\ PendingLoad = <<>>) => files' = files
        /\ (Runs("test_spawn") /\ PendingSpawn = <<>>) => commands' = <<>>
        /\ (phase = "Update" /\ phase' = "First" /\ commands = <<>>)
           => preview_objects' = preview_objects ]_vars

\* The meshes of entry i once the first n of the pending LoadBlenderData
\* events were processed with success.
MeshesAfter(i, n) ==
    files[i + 1].meshes
    \o Repeat(LoadedNames(files[i + 1].path), LoadsOf(SubSeq(PendingLoad, 1, n), i))

\* C19: a run of load_blender_metadata either reads the file of every
\* pending event and appends its names, or panics at the first event whose
\* file cannot be read: then no entry receives a name from that event (nor
\* from a later one), the catalog keeps its entries and the selection, and
\* nothing runs after the panic.
C19_UnreadableFileIsFatal ==
    [][ /\ panicked = "none"
        /\ Runs("load_blender_metadata")
           => /\ panicked' \in {"none", "error loading blend file"}
              /\ panicked' = "none"
                 => \A i \in 0 .. Len(files) - 1 :
                       files'[i + 1].meshes = MeshesAfter(i, Len(PendingLoad))
              /\ panicked' = "error loading blend file"
                 => /\ Len(files') = Len(files)
                    /\ selected_file' = selected_file
                    /\ \E n \in 0 .. Len(PendingLoad) - 1 :
                          \A i \in 0 .. Len(files) - 1 :
                             files'[i + 1].meshes = MeshesAfter(i, n) ]_vars

\* C19 witness: demo.blend was picked and selected, its read failed: the
\* process panicked and the entry has no names.
C19_Witness ==
    /\ panicked = "error loading blend file"
    /\ Len(files) = 1
    /\ files[1] = File("demo.blend")
    /\ selected_file = Some(0)
    /\ clicked = {FileButton(0)}

====
